---- MODULE Spec2Model ----
(***************************************************************************)
(* GarudaNetra attendance server: the in-memory entity store (MemStorage)  *)
(* and the HTTP handlers of server/routes.ts that read and write it.       *)
(*                                                                         *)
(* Conventions of the model                                                *)
(*  - A JS Map is a sequence of records in insertion order (Map.values()   *)
(*    iterates in insertion order; Map.set on an existing key keeps the    *)
(*    key's position).                                                     *)
(*  - randomUUID() is a fresh identifier: students get nextId, nextId+1,   *)
(*    ...; attendance records, which are never deleted, get their          *)
(*    position.  Identifier 0 (Ghost) is a well-formed identifier that     *)
(*    was never issued.                                                    *)
(*  - A calendar day 'YYYY-MM-DD' is a natural number; consecutive days    *)
(*    are consecutive numbers, so the string order of ISO dates is the     *)
(*    order of the numbers.                                                *)
(*  - A field that is absent from a request body is MISSING; JS null is    *)
(*    NULL; JS undefined as a lookup result is Undefined.                  *)
(***************************************************************************)
EXTENDS Integers, Sequences, FiniteSets, TLC

VARIABLES
    students,     \* MemStorage.students, in insertion order
    attendance,   \* MemStorage.attendance, in insertion order
    nextId,       \* the next fresh student identifier
    today,        \* the server's current calendar day
    mutations,    \* number of requests served so far that changed the store
    inflight,     \* QR and face requests suspended at an await
    last,         \* the last request served and its response
    doc,          \* the PDF document a report request is writing
    client        \* the browser: AuthContext and the face recognition page

vars == <<students, attendance, nextId, today, mutations, inflight, last, doc, client>>

-----------------------------------------------------------------------------
(* Bounds of the model *)

\* requests served that change the store (a create, an update, a delete, a
\* mark, midnight)
MaxMutations == 2
\* last calendar day the clock reaches
MaxDay == 2
\* QR and face requests suspended at once
MaxInflight == 2
\* the most 2-second timers of the face recognition page alive at once
MaxIntervals == 2
\* the most data rows a report document is written with
MaxPdfRows == 80

-----------------------------------------------------------------------------
(* Values *)

MISSING == "<missing>"
NULL == "<null>"
Undefined == [undefined |-> TRUE]
Ghost == 0

Statuses == {"present", "absent", "late"}
Methods == {"qr", "face", "manual", NULL}

Days == 1..MaxDay

\* a.localeCompare(b) on the names in use: their rank in collation order
NameRank(n) ==
    CASE n = "Aarav Sharma" -> 1
      [] n = "Priya Patel" -> 2
      [] n = "Rahul Kumar" -> 3
      [] OTHER -> 4

localeCompare(a, b) ==
    IF NameRank(a) < NameRank(b) THEN -1
    ELSE IF NameRank(a) > NameRank(b) THEN 1 ELSE 0

qrCodeOf(admissionNo) == <<"QR_", admissionNo>>

-----------------------------------------------------------------------------
(* MemStorage *)

\* the optional columns of a student: a stored field is a string, NULL, or
\* MISSING when the object has no such property (it reads as undefined)
OptionalFields == {"email", "contactNo", "parentContact", "photoUrl", "faceDescriptor"}

sampleStudents ==
    << [id |-> 1, admissionNo |-> "APS001", name |-> "Aarav Sharma",
        className |-> "12", section |-> "A", qrCode |-> qrCodeOf("APS001"),
        email |-> "aarav.sharma@student.aps.edu", contactNo |-> "9876543210",
        parentContact |-> "9876543211", photoUrl |-> NULL, faceDescriptor |-> NULL],
       [id |-> 2, admissionNo |-> "APS002", name |-> "Priya Patel",
        className |-> "12", section |-> "A", qrCode |-> qrCodeOf("APS002"),
        email |-> "priya.patel@student.aps.edu", contactNo |-> "9876543212",
        parentContact |-> "9876543213", photoUrl |-> NULL, faceDescriptor |-> NULL],
       [id |-> 3, admissionNo |-> "APS003", name |-> "Rahul Kumar",
        className |-> "12", section |-> "B", qrCode |-> qrCodeOf("APS003"),
        email |-> "rahul.kumar@student.aps.edu", contactNo |-> "9876543214",
        parentContact |-> "9876543215", photoUrl |-> NULL, faceDescriptor |-> NULL] >>

sampleAttendance(day) ==
    [i \in 1..2 |->
        [id |-> i, studentId |-> sampleStudents[i].id, date |-> day,
         status |-> "present", method |-> "manual"]]

\* Array.prototype.find: the first of the elements satisfying the test (hits,
\* in the order of the array), or undefined
Find(hits) == IF hits = <<>> THEN Undefined ELSE hits[1]

getStudent(id) == Find(SelectSeq(students, LAMBDA s : s.id = id))

\* a sort that places an element before the elements of equal name
RECURSIVE InsertSortedUnstable(_, _)
InsertSortedUnstable(sorted, s) ==
    IF sorted = <<>> THEN <<s>>
    ELSE IF localeCompare(sorted[Len(sorted)].name, s.name) < 0
         THEN Append(sorted, s)
         ELSE Append(InsertSortedUnstable(SubSeq(sorted, 1, Len(sorted) - 1), s),
                     sorted[Len(sorted)])

\* Array.prototype.sort with comparator a.name.localeCompare(b.name):
\* a stable sort, written as insertion of each element after the last
\* element that does not compare greater
RECURSIVE InsertSorted(_, _)
InsertSorted(sorted, s) ==
    IF sorted = <<>> THEN <<s>>
    ELSE IF localeCompare(sorted[Len(sorted)].name, s.name) <= 0
         THEN Append(sorted, s)
         ELSE Append(InsertSorted(SubSeq(sorted, 1, Len(sorted) - 1), s),
                     sorted[Len(sorted)])

RECURSIVE SortByName(_)
SortByName(seq) ==
    IF seq = <<>> THEN <<>>
    ELSE InsertSorted(SortByName(SubSeq(seq, 1, Len(seq) - 1)), seq[Len(seq)])

\* a filter field is applied when it is truthy: present and non-empty
Truthy(v) == v # MISSING /\ v # NULL /\ v # ""

getStudents(filters) ==
    LET byClass == IF Truthy(filters.className)
                   THEN SelectSeq(students, LAMBDA s : s.className = filters.className)
                   ELSE students
        bySection == IF Truthy(filters.section)
                     THEN SelectSeq(byClass, LAMBDA s : s.section = filters.section)
                     ELSE byClass
    IN SortByName(bySection)

NoFilter == [className |-> MISSING, section |-> MISSING]

\* value || null
OrNull(v) == IF Truthy(v) THEN v ELSE NULL

\* createStudent: the stored record, id being the value of randomUUID().
\* The spread copies the properties the input has; email, contactNo and
\* parentContact are then set to `value || null`, photoUrl and
\* faceDescriptor are not.
newStudent(insertStudent, id) ==
    [id |-> id,
     admissionNo |-> insertStudent.admissionNo,
     name |-> insertStudent.name,
     className |-> insertStudent.className,
     section |-> insertStudent.section,
     qrCode |-> qrCodeOf(insertStudent.admissionNo),
     email |-> OrNull(insertStudent.email),
     contactNo |-> OrNull(insertStudent.contactNo),
     parentContact |-> OrNull(insertStudent.parentContact),
     photoUrl |-> insertStudent.photoUrl,
     faceDescriptor |-> insertStudent.faceDescriptor]

\* a merge that keeps the record and drops the updates
MergeKeepingRecord(record, upd) == record

\* { ...record, ...updates }
Merge(record, upd) ==
    [f \in DOMAIN record |-> IF f \in DOMAIN upd THEN upd[f] ELSE record[f]]

\* Map.set(id, value) on a key the map holds
SetAt(seq, id, value) ==
    [i \in 1..Len(seq) |-> IF seq[i].id = id THEN value ELSE seq[i]]

RemoveAt(seq, i) == SubSeq(seq, 1, i - 1) \o SubSeq(seq, i + 1, Len(seq))

\* Map.delete(id)
RemoveId(seq, id) == SelectSeq(seq, LAMBDA s : s.id # id)

getAttendance(studentId, date) ==
    Find(SelectSeq(attendance, LAMBDA a : a.studentId = studentId /\ a.date = date))

getAttendanceByDate(date, className) ==
    LET onDate == SelectSeq(attendance, LAMBDA a : a.date = date)
        studentIds == {students[i].id : i \in
                          {j \in 1..Len(students) : students[j].className = className}}
    IN IF Truthy(className)
       THEN SelectSeq(onDate, LAMBDA a : a.studentId \in studentIds)
       ELSE onDate

\* b.date.localeCompare(a.date): newest first, stable
RECURSIVE InsertByDateDesc(_, _)
InsertByDateDesc(sorted, a) ==
    IF sorted = <<>> THEN <<a>>
    ELSE IF sorted[Len(sorted)].date >= a.date
         THEN Append(sorted, a)
         ELSE Append(InsertByDateDesc(SubSeq(sorted, 1, Len(sorted) - 1), a),
                     sorted[Len(sorted)])

RECURSIVE SortByDateDesc(_)
SortByDateDesc(seq) ==
    IF seq = <<>> THEN <<>>
    ELSE InsertByDateDesc(SortByDateDesc(SubSeq(seq, 1, Len(seq) - 1)), seq[Len(seq)])

NoRange == [from |-> 0, to |-> 0]

\* a range filter that leaves out the records dated dateRange.to
getAttendanceHistoryBeforeTo(studentId, dateRange) ==
    LET own == SelectSeq(attendance, LAMBDA a : a.studentId = studentId)
        inRange == IF dateRange # NoRange
                   THEN SelectSeq(own, LAMBDA a : a.date >= dateRange.from
                                                  /\ a.date < dateRange.to)
                   ELSE own
    IN SortByDateDesc(inRange)

getAttendanceHistory(studentId, dateRange) ==
    LET own == SelectSeq(attendance, LAMBDA a : a.studentId = studentId)
        inRange == IF dateRange # NoRange
                   THEN SelectSeq(own, LAMBDA a : a.date >= dateRange.from
                                                  /\ a.date <= dateRange.to)
                   ELSE own
    IN SortByDateDesc(inRange)

\* createAttendance: the stored record, id being the value of randomUUID()
newAttendance(insertAttendance, id) ==
    [id |-> id,
     studentId |-> insertAttendance.studentId,
     date |-> insertAttendance.date,
     status |-> insertAttendance.status,
     method |-> IF Truthy(insertAttendance.method)
                THEN insertAttendance.method ELSE NULL]

CountStatus(records, status) ==
    Len(SelectSeq(records, LAMBDA a : a.status = status))

\* a JS number that is a quotient: kept exact as numerator and denominator
Ratio(num, den) == [num |-> num, den |-> den]

getAttendanceStats(date, className) ==
    LET studs == getStudents(IF Truthy(className)
                             THEN [className |-> className, section |-> MISSING]
                             ELSE NoFilter)
        attendanceRecords == getAttendanceByDate(date, className)
        totalStudents == Len(studs)
        present == CountStatus(attendanceRecords, "present")
        absent == CountStatus(attendanceRecords, "absent")
        late == CountStatus(attendanceRecords, "late")
        unmarked == totalStudents - Len(attendanceRecords)
    IN [totalStudents |-> totalStudents,
        present |-> present,
        absent |-> absent + unmarked,
        late |-> late,
        attendanceRate |-> IF totalStudents > 0
                           THEN Ratio(present * 100, totalStudents)
                           ELSE Ratio(0, 1)]

\* a percentage that counts present records only
getStudentAttendancePercentagePresentOnly(studentId, dateRange) ==
    LET records == getAttendanceHistory(studentId, dateRange)
        presentDays == Len(SelectSeq(records, LAMBDA r : r.status = "present"))
    IN IF Len(records) = 0 THEN Ratio(0, 1)
       ELSE Ratio(presentDays * 100, Len(records))

getStudentAttendancePercentage(studentId, dateRange) ==
    LET records == getAttendanceHistory(studentId, dateRange)
        presentDays == Len(SelectSeq(records,
                          LAMBDA r : r.status = "present" \/ r.status = "late"))
    IN IF Len(records) = 0 THEN Ratio(0, 1)
       ELSE Ratio(presentDays * 100, Len(records))

-----------------------------------------------------------------------------
(* Initial state: new MemStorage() *)

NoRequest == [op |-> "none", req |-> <<>>, code |-> 0, message |-> "", body |-> <<>>]

\* MemStorage.users: the two users initializeDefaultData creates; no
\* handler calls createUser
sampleUsers ==
    << [id |-> 1, username |-> "admin", password |-> "admin123", role |-> "admin",
        name |-> "System Administrator", email |-> "admin@aps.edu"],
       [id |-> 2, username |-> "teacher", password |-> "teacher123", role |-> "teacher",
        name |-> "John Teacher", email |-> "teacher@aps.edu"] >>

\* Array.from(this.users.values()).find(user => user.username === username)
getUserByUsername(username) ==
    Find(SelectSeq(sampleUsers, LAMBDA u : u.username = username))

\* useState<User | null>(null): nobody is logged in
NoUser == [id |-> 0, username |-> NULL, role |-> NULL, name |-> NULL, email |-> NULL]

\* no PDF document is being written
NoDocument == [rows |-> 0, positions |-> <<>>, yPosition |-> 0, page |-> 0]

\* the browser when the application is loaded: nobody is logged in
\* (useState(null)), the face recognition page is not recognizing
\* (useState(false)), its threshold is 80 (useState(80)) and no interval
\* timer is set
ClientLoaded ==
    [user |-> NoUser, isRecognizing |-> FALSE, confidenceThreshold |-> 80,
     intervals |-> <<>>]

Init ==
    /\ students = sampleStudents
    /\ today = 1
    /\ attendance = sampleAttendance(1)
    /\ nextId = 4
    /\ mutations = 0
    /\ inflight = <<>>
    /\ last = NoRequest
    /\ doc = NoDocument
    /\ client = ClientLoaded

-----------------------------------------------------------------------------
(* Requests.  A response is the status code, the message of an error body  *)
(* (or of a success body that carries one) and the payload.                *)

Response(op, req, code, message, body) ==
    [op |-> op, req |-> req, code |-> code, message |-> message, body |-> body]

IssuedIds == 1..(nextId - 1)

\* identifiers the requests carry: every one issued so far but that of the
\* second sample student (who differs from the first by name only), and one
\* that was never issued
TargetIds == (IssuedIds \ {2}) \cup {Ghost}

\* request bodies: one with an email and no other optional field, one with
\* every optional field absent, one without the required name
StudentBodies ==
    { [admissionNo |-> "APS004", name |-> "Priya Patel", className |-> "12", section |-> "B",
       email |-> "priya.p@student.aps.edu", contactNo |-> MISSING,
       parentContact |-> MISSING, photoUrl |-> MISSING, faceDescriptor |-> MISSING],
      [admissionNo |-> "APS001", name |-> "Aarav Sharma", className |-> "10", section |-> "A",
       email |-> MISSING, contactNo |-> MISSING,
       parentContact |-> MISSING, photoUrl |-> MISSING, faceDescriptor |-> MISSING],
      [admissionNo |-> "APS005", name |-> MISSING, className |-> "12", section |-> "A",
       email |-> MISSING, contactNo |-> MISSING,
       parentContact |-> MISSING, photoUrl |-> MISSING, faceDescriptor |-> MISSING] }

\* insertStudentSchema.parse: the notNull text columns are required strings
ValidInsertStudent(b) ==
    /\ b.admissionNo # MISSING
    /\ b.name # MISSING
    /\ b.className # MISSING
    /\ b.section # MISSING

StudentUpdates ==
    { [name |-> "Rahul Kumar", className |-> "10"], [admissionNo |-> "APS003"] }

\* POST /api/students
PostStudent(b) ==
    /\ IF ValidInsertStudent(b)
       THEN /\ mutations < MaxMutations
            /\ mutations' = mutations + 1
            /\ students' = Append(students, newStudent(b, nextId))
            /\ nextId' = nextId + 1
            /\ last' = Response("POST /api/students", b, 201, "", newStudent(b, nextId))
       ELSE /\ last' = Response("POST /api/students", b, 400, "Invalid student data", <<>>)
            /\ UNCHANGED <<students, nextId, mutations>>
    /\ UNCHANGED <<attendance, today, inflight, doc, client>>

\* PUT /api/students/:id
PutStudent(id, upd) ==
    /\ IF getStudent(id) = Undefined
       THEN /\ last' = Response("PUT /api/students/:id", <<id, upd>>, 404,
                                "Student not found", <<>>)
            /\ UNCHANGED <<students, mutations>>
       ELSE /\ mutations < MaxMutations
            /\ mutations' = mutations + 1
            /\ students' = SetAt(students, id, Merge(getStudent(id), upd))
            /\ last' = Response("PUT /api/students/:id", <<id, upd>>, 200, "",
                                Merge(getStudent(id), upd))
    /\ UNCHANGED <<attendance, nextId, today, inflight, doc, client>>

\* a delete that also removes the attendance records of the student
DeleteStudentCascade(id) ==
    /\ IF getStudent(id) = Undefined
       THEN /\ last' = Response("DELETE /api/students/:id", id, 404,
                                "Student not found", <<>>)
            /\ UNCHANGED <<students, attendance, mutations>>
       ELSE /\ mutations < MaxMutations
            /\ mutations' = mutations + 1
            /\ students' = RemoveId(students, id)
            /\ attendance' = SelectSeq(attendance, LAMBDA a : a.studentId # id)
            /\ last' = Response("DELETE /api/students/:id", id, 200,
                                "Student deleted successfully", <<>>)
    /\ UNCHANGED <<nextId, today, inflight, doc, client>>

\* DELETE /api/students/:id
DeleteStudent(id) ==
    /\ IF getStudent(id) = Undefined
       THEN /\ last' = Response("DELETE /api/students/:id", id, 404,
                                "Student not found", <<>>)
            /\ UNCHANGED <<students, mutations>>
       ELSE /\ mutations < MaxMutations
            /\ mutations' = mutations + 1
            /\ students' = RemoveId(students, id)
            /\ last' = Response("DELETE /api/students/:id", id, 200,
                                "Student deleted successfully", <<>>)
    /\ UNCHANGED <<attendance, nextId, today, inflight, doc, client>>

\* a bulk create that takes the elements from the last one to the first
RECURSIVE bulkCreateStudentsLastFirst(_, _)
bulkCreateStudentsLastFirst(insertStudents, firstId) ==
    IF insertStudents = <<>> THEN <<>>
    ELSE <<newStudent(insertStudents[Len(insertStudents)], firstId)>>
         \o bulkCreateStudentsLastFirst(
                SubSeq(insertStudents, 1, Len(insertStudents) - 1), firstId + 1)

\* bulkCreateStudents: createStudent on each element in input order
RECURSIVE bulkCreateStudents(_, _)
bulkCreateStudents(insertStudents, firstId) ==
    IF insertStudents = <<>> THEN <<>>
    ELSE <<newStudent(Head(insertStudents), firstId)>>
         \o bulkCreateStudents(Tail(insertStudents), firstId + 1)

BulkLists ==
    { <<>> } \cup { <<a, b>> : a, b \in StudentBodies }

\* POST /api/students/bulk-upload, from the parsed rows of the sheet on
PostBulkUpload(rows) ==
    /\ IF \A i \in 1..Len(rows) : ValidInsertStudent(rows[i])
       THEN /\ mutations + Len(rows) <= MaxMutations
            /\ mutations' = mutations + Len(rows)
            /\ students' = students \o bulkCreateStudents(rows, nextId)
            /\ nextId' = nextId + Len(rows)
            /\ last' = Response("POST /api/students/bulk-upload", rows, 200, "",
                                bulkCreateStudents(rows, nextId))
       ELSE /\ last' = Response("POST /api/students/bulk-upload", rows, 400,
                                "Failed to process file", <<>>)
            /\ UNCHANGED <<students, nextId, mutations>>
    /\ UNCHANGED <<attendance, today, inflight, doc, client>>

-----------------------------------------------------------------------------
(* Attendance requests *)

MissingId == -1

AttendanceValues ==
    { [status |-> "absent", method |-> "manual"],
      [status |-> "late", method |-> MISSING],
      [status |-> "excused", method |-> "rfid"] }

AttendanceBodies ==
    { [studentId |-> 1, date |-> d, status |-> v.status, method |-> v.method] :
        d \in Days, v \in AttendanceValues }
    \cup { [studentId |-> Ghost, date |-> 1, status |-> "absent", method |-> "manual"],
           [studentId |-> 1, date |-> 1, status |-> MISSING, method |-> MISSING] }

\* insertAttendanceSchema.parse: studentId, date and status are required
\* strings (text and varchar columns), method is an optional nullable string
ValidInsertAttendance(b) ==
    /\ b.studentId # MissingId
    /\ b.date \in Nat
    /\ b.status # MISSING

\* POST /api/attendance
PostAttendance(b) ==
    /\ IF ValidInsertAttendance(b)
       THEN /\ mutations < MaxMutations
            /\ mutations' = mutations + 1
            /\ attendance' = Append(attendance, newAttendance(b, Len(attendance) + 1))
            /\ last' = Response("POST /api/attendance", b, 201, "",
                                newAttendance(b, Len(attendance) + 1))
       ELSE /\ last' = Response("POST /api/attendance", b, 400,
                                "Invalid attendance data", <<>>)
            /\ UNCHANGED <<attendance, mutations>>
    /\ UNCHANGED <<students, nextId, today, inflight, doc, client>>

\* the qrData string: JSON text carrying a studentId, or text JSON.parse rejects
QrData(studentId) == [json |-> TRUE, studentId |-> studentId]
NotJson == [json |-> FALSE, studentId |-> MissingId]

QrBodies ==
    { [qrData |-> QrData(s), method |-> "qr"] : s \in TargetIds }
    \cup { [qrData |-> QrData(3), method |-> MISSING],
           [qrData |-> NotJson, method |-> "qr"] }

\* qrAttendanceSchema.parse
ValidQrAttendance(b) == b.method = "qr"

FaceConfidenceMin == 80

\* a threshold that rejects the boundary value too
ConfidenceTooLowAtThreshold(confidence) == confidence <= FaceConfidenceMin

\* if (confidence < 80)
ConfidenceTooLow(confidence) == confidence < FaceConfidenceMin

FaceBodies ==
    { [studentId |-> s, imageData |-> "data:image", confidence |-> c] :
        s \in TargetIds, c \in {79, 80} }
    \cup { [studentId |-> 3, imageData |-> "data:image", confidence |-> c] :
             c \in {-1, 100, 101} }
    \cup { [studentId |-> 3, imageData |-> MISSING, confidence |-> 80] }

\* faceRecognitionSchema.parse
ValidFaceRecognition(b) ==
    /\ b.studentId # MissingId
    /\ b.imageData # MISSING
    /\ b.confidence >= 0
    /\ b.confidence <= 100

\* the record both marking handlers pass to createAttendance
MarkPresent(student, date, method) ==
    [studentId |-> student.id, date |-> date, status |-> "present", method |-> method]

StudentSummary(student) ==
    [name |-> student.name, admissionNo |-> student.admissionNo,
     className |-> student.className, section |-> student.section]

QrOp == "POST /api/attendance/qr"
FaceOp == "POST /api/attendance/face"

\* the rejections of the two marking handlers, in the order the code tests them
QrRejected(b) ==
    Response(QrOp, b, 400, "Invalid QR code or failed to mark attendance", <<>>)

FaceRejected(b) ==
    IF ~ValidFaceRecognition(b)
    THEN Response(FaceOp, b, 400, "Face recognition failed", <<>>)
    ELSE Response(FaceOp, b, 400, "Face recognition confidence too low", <<>>)

StudentNotFound(op, b) == Response(op, b, 404, "Student not found", <<>>)

AlreadyMarked(op, b) ==
    Response(op, b, 400, "Attendance already marked for today", <<>>)

Marked(op, b, student, record) ==
    Response(op, b, 200,
             IF op = QrOp THEN "Attendance marked successfully"
             ELSE "Attendance marked via face recognition",
             [student |-> StudentSummary(student), attendance |-> record])

MethodOf(op) == IF op = QrOp THEN "qr" ELSE "face"

\* from the student lookup on, the two handlers run the same steps
MarkResponse(op, b, studentId) ==
    LET student == getStudent(studentId)
    IN IF student = Undefined THEN StudentNotFound(op, b)
       ELSE IF getAttendance(student.id, today) # Undefined THEN AlreadyMarked(op, b)
       ELSE Marked(op, b, student,
                   newAttendance(MarkPresent(student, today, MethodOf(op)),
                                 Len(attendance) + 1))

QrResponse(b) ==
    IF ~ValidQrAttendance(b) \/ ~b.qrData.json THEN QrRejected(b)
    ELSE MarkResponse(QrOp, b, b.qrData.studentId)

FaceResponse(b) ==
    IF ~ValidFaceRecognition(b) \/ ConfidenceTooLow(b.confidence) THEN FaceRejected(b)
    ELSE MarkResponse(FaceOp, b, b.studentId)

\* a marking handler run to completion, given its response
Mark(response) ==
    /\ last' = response
    /\ IF response.code = 200
       THEN /\ mutations < MaxMutations
            /\ mutations' = mutations + 1
            /\ attendance' = Append(attendance, response.body.attendance)
       ELSE UNCHANGED <<attendance, mutations>>
    /\ UNCHANGED <<students, nextId, today, inflight, doc, client>>

\* POST /api/attendance/qr
PostAttendanceQr(b) == Mark(QrResponse(b))

\* POST /api/attendance/face
PostAttendanceFace(b) == Mark(FaceResponse(b))

AttendanceUpdates == { [status |-> "late"], [studentId |-> 1] }

\* MemStorage.updateAttendance
UpdateAttendance(id, upd) ==
    /\ IF Find(SelectSeq(attendance, LAMBDA a : a.id = id)) = Undefined
       THEN /\ last' = Response("updateAttendance", <<id, upd>>, 0, "", Undefined)
            /\ UNCHANGED <<attendance, mutations>>
       ELSE /\ mutations < MaxMutations
            /\ mutations' = mutations + 1
            /\ attendance' = SetAt(attendance, id,
                                   Merge(Find(SelectSeq(attendance, LAMBDA a : a.id = id)), upd))
            /\ last' = Response("updateAttendance", <<id, upd>>, 0, "",
                                Merge(Find(SelectSeq(attendance, LAMBDA a : a.id = id)), upd))
    /\ UNCHANGED <<students, nextId, today, inflight, doc, client>>

\* midnight: new Date().toISOString().split('T')[0] moves to the next day
NextDay ==
    /\ today < MaxDay
    /\ mutations < MaxMutations
    /\ mutations' = mutations + 1
    /\ today' = today + 1
    /\ last' = NoRequest
    /\ UNCHANGED <<students, attendance, nextId, inflight, doc, client>>

-----------------------------------------------------------------------------
(* Queries *)

ClassFilters == {MISSING, "12", "10"}
SectionFilters == {MISSING, "B"}

\* a GET /api/students that sorts the stored students themselves
GetStudentsSortingStore(className, section) ==
    /\ last' = Response("GET /api/students",
                        [className |-> className, section |-> section], 200, "",
                        getStudents([className |-> className, section |-> section]))
    /\ students' = SortByName(students)
    /\ UNCHANGED <<attendance, nextId, today, mutations, inflight, doc, client>>

\* GET /api/students
GetStudents(className, section) ==
    /\ last' = Response("GET /api/students",
                        [className |-> className, section |-> section], 200, "",
                        getStudents([className |-> className, section |-> section]))
    /\ UNCHANGED <<students, attendance, nextId, today, mutations, inflight, doc, client>>

\* GET /api/attendance/stats
GetAttendanceStats(date, className) ==
    /\ last' = Response("GET /api/attendance/stats",
                        [date |-> date, className |-> className], 200, "",
                        getAttendanceStats(date, className))
    /\ UNCHANGED <<students, attendance, nextId, today, mutations, inflight, doc, client>>

DashboardOp == "GET /api/dashboard/stats"

\* GET /api/attendance
GetAttendance(date, className) ==
    /\ last' = Response("GET /api/attendance", [date |-> date, className |-> className],
                        200, "", getAttendanceByDate(date, className))
    /\ UNCHANGED <<students, attendance, nextId, today, mutations, inflight, doc, client>>

\* MemStorage.classes: the class initializeDefaultData creates; no handler
\* calls createClass
sampleClasses == << [name |-> "12", section |-> "A"] >>

\* { class: `${cls.name}-${cls.section}`, ...classAttendance }
ClassStats(cls, stats) ==
    [class |-> <<cls.name, "-", cls.section>>,
     totalStudents |-> stats.totalStudents, present |-> stats.present,
     absent |-> stats.absent, late |-> stats.late,
     attendanceRate |-> stats.attendanceRate]

\* GET /api/dashboard/stats
GetDashboardStats ==
    /\ last' = Response(DashboardOp, today, 200, "",
                  [overall |-> getAttendanceStats(today, MISSING),
                   byClass |-> [i \in 1..Len(sampleClasses) |->
                                  ClassStats(sampleClasses[i],
                                             getAttendanceStats(today, sampleClasses[i].name))]])
    /\ UNCHANGED <<students, attendance, nextId, today, mutations, inflight, doc, client>>

DateRanges ==
    {NoRange}
    \cup UNION { { [from |-> f, to |-> f], [from |-> f, to |-> MaxDay] } : f \in Days }
    \cup { [from |-> MaxDay, to |-> 1] }

\* GET /api/attendance/student/:studentId
GetStudentAttendance(studentId, dateRange) ==
    /\ last' = Response("GET /api/attendance/student/:studentId",
                        [studentId |-> studentId, dateRange |-> dateRange], 200, "",
                        [history |-> getAttendanceHistory(studentId, dateRange),
                         percentage |-> getStudentAttendancePercentage(studentId, dateRange)])
    /\ UNCHANGED <<students, attendance, nextId, today, mutations, inflight, doc, client>>

-----------------------------------------------------------------------------
(* Reports: POST /api/reports/generate.  A text is a sequence of pieces     *)
(* (strings); the text of a number is the sequence of its decimal digits.   *)

ReportOp == "POST /api/reports/generate"
ReportKinds == {"daily", "weekly", "monthly", "custom"}
ReportFormats == {"excel", "csv", "pdf"}

\* a date range bound that is a string but not a date, such as 'not-a-date':
\* it compares greater than every 'YYYY-MM-DD' string
NotADate == MaxDay + 100

\* Math.round of a non-negative quotient: the nearest integer, halves up
Round(ratio) == (2 * ratio.num + ratio.den) \div (2 * ratio.den)

DigitChars == <<"0", "1", "2", "3", "4", "5", "6", "7", "8", "9">>

\* Number.prototype.toString of a non-negative integer
RECURSIVE NumberText(_)
NumberText(n) ==
    IF n < 10 THEN <<DigitChars[n + 1]>>
    ELSE Append(NumberText(n \div 10), DigitChars[(n % 10) + 1])

\* the number a text of decimal digits denotes
RECURSIVE TextNumber(_)
TextNumber(text) ==
    LET d == CHOOSE k \in 0..9 : DigitChars[k + 1] = text[Len(text)]
    IN IF Len(text) = 1 THEN d
       ELSE 10 * TextNumber(SubSeq(text, 1, Len(text) - 1)) + d

\* `${className}-${section}`
ClassLabel(student) == <<student.className, "-", student.section>>

\* one element of reportData
ReportRow(student, dateRange) ==
    LET history == getAttendanceHistory(student.id, dateRange)
        percentage == getStudentAttendancePercentage(student.id, dateRange)
    IN [student |-> student,
        totalDays |-> Len(history),
        presentDays |-> Len(SelectSeq(history,
                           LAMBDA h : h.status = "present" \/ h.status = "late")),
        absentDays |-> CountStatus(history, "absent"),
        percentage |-> Round(percentage)]

\* reportData: one row per student of getStudents, in that order
reportData(className, dateRange) ==
    LET studs == getStudents(IF Truthy(className)
                             THEN [className |-> className, section |-> MISSING]
                             ELSE NoFilter)
    IN [i \in 1..Len(studs) |-> ReportRow(studs[i], dateRange)]

\* a cell of a sheet: a number cell, or a string cell holding a text
NumberCell(n) == [n |-> n]
StringCell(text) == [s |-> text]

\* the object each element of reportData is mapped to, as the cells of its
\* sheet row in key order
SheetRow(r) ==
    << StringCell(<<r.student.admissionNo>>), StringCell(<<r.student.name>>),
       StringCell(ClassLabel(r.student)),
       NumberCell(r.totalDays), NumberCell(r.presentDays),
       NumberCell(r.absentDays), NumberCell(r.percentage) >>

\* XLSX.utils.json_to_sheet: a header row of the keys, then one row per object
json_to_sheet(rows) ==
    << << StringCell(<<"Admission No">>), StringCell(<<"Name">>),
          StringCell(<<"Class">>), StringCell(<<"Total Days">>),
          StringCell(<<"Present Days">>), StringCell(<<"Absent Days">>),
          StringCell(<<"Attendance %">>) >> >>
    \o [i \in 1..Len(rows) |-> SheetRow(rows[i])]

\* the text of a cell in delimited text
CellText(cell) == IF "n" \in DOMAIN cell THEN NumberText(cell.n) ELSE cell.s

\* XLSX.utils.sheet_to_csv: one line per row of the sheet, a line being the
\* texts of the row's cells in column order (joined by commas)
sheet_to_csv(sheet) ==
    [i \in 1..Len(sheet) |-> [j \in 1..Len(sheet[i]) |-> CellText(sheet[i][j])]]

\* a data line of the PDF document
PdfLine(r) ==
    << <<r.student.admissionNo>>, <<r.student.name>>, ClassLabel(r.student),
       NumberText(r.presentDays), NumberText(r.absentDays),
       Append(NumberText(r.percentage), "%") >>

Artifact(contentType, filename, content) ==
    [contentType |-> contentType, filename |-> filename, content |-> content]

ReportBodies ==
    { [type |-> "daily", dateRange |-> [from |-> 1, to |-> MaxDay],
       className |-> c, format |-> f] :
        c \in {MISSING, "12", "11"}, f \in ReportFormats \cup {MISSING} }
    \cup { [type |-> t, dateRange |-> [from |-> 1, to |-> MaxDay],
            className |-> MISSING, format |-> "csv"] :
             t \in {"weekly", "monthly", "custom", "yearly"} }
    \cup { [type |-> "daily", dateRange |-> r, className |-> MISSING, format |-> "csv"] :
             r \in { [from |-> 1, to |-> 1],
                     [from |-> NotADate, to |-> NotADate],
                     [from |-> 1, to |-> MissingId] } }

\* a range that a daily report narrows to its first day
ReportRangeOfKind(b) ==
    IF b.type = "daily" THEN [from |-> b.dateRange.from, to |-> b.dateRange.from]
    ELSE b.dateRange

\* the range the rows are computed over: dateRange as parsed; type is not read
ReportRange(b) == b.dateRange

\* reportGenerationSchema.parse
ValidReportGeneration(b) ==
    /\ b.type \in ReportKinds
    /\ b.dateRange.from # MissingId
    /\ b.dateRange.to # MissingId
    /\ b.format \in ReportFormats

ReportResponse(b) ==
    LET rows == reportData(b.className, ReportRange(b))
    IN IF ~ValidReportGeneration(b)
       THEN Response(ReportOp, b, 400, "Failed to generate report", <<>>)
       ELSE IF b.format = "excel"
       THEN Response(ReportOp, b, 200, "",
                Artifact("application/vnd.openxmlformats-officedocument.spreadsheetml.sheet",
                         "attendance-report.xlsx", json_to_sheet(rows)))
       ELSE IF b.format = "csv"
       THEN Response(ReportOp, b, 200, "",
                Artifact("text/csv", "attendance-report.csv",
                         sheet_to_csv(json_to_sheet(rows))))
       ELSE IF b.format = "pdf"
       THEN Response(ReportOp, b, 200, "",
                Artifact("application/pdf", "attendance-report.pdf",
                         [i \in 1..Len(rows) |-> PdfLine(rows[i])]))
       ELSE Response(ReportOp, b, 200, "",
                Artifact("application/json", "", rows))

\* POST /api/reports/generate
PostReportsGenerate(b) ==
    /\ last' = ReportResponse(b)
    /\ UNCHANGED <<students, attendance, nextId, today, mutations, inflight, doc, client>>

-----------------------------------------------------------------------------
(* The server with every handler run to completion.  Each await of a       *)
(* handler awaits a MemStorage promise that is already settled, so the     *)
(* handler's continuations run before the next request is dispatched.      *)
(* Spec serves the attendance requests and SpecStudents the student        *)
(* requests.                                                               *)

Next ==
    \/ \E b \in AttendanceBodies : PostAttendance(b)
    \/ \E b \in QrBodies : PostAttendanceQr(b)
    \/ \E b \in FaceBodies : PostAttendanceFace(b)
    \/ \E id \in {2, Len(attendance) + 1}, upd \in AttendanceUpdates :
          UpdateAttendance(id, upd)
    \/ \E id \in TargetIds : DeleteStudent(id)
    \/ NextDay
    \/ \E d \in Days, c \in {MISSING, "12"} : GetAttendanceStats(d, c)
    \/ \E r \in DateRanges : GetStudentAttendance(1, r)

Spec == Init /\ [][Next]_vars

NextStudents ==
    \/ \E b \in StudentBodies : PostStudent(b)
    \/ \E id \in TargetIds, upd \in StudentUpdates : PutStudent(id, upd)
    \/ \E id \in TargetIds : DeleteStudent(id)
    \/ \E rows \in BulkLists : PostBulkUpload(rows)
    \/ \E c \in ClassFilters, s \in SectionFilters : GetStudents(c, s)

SpecStudents == Init /\ [][NextStudents]_vars

\* SpecReports serves the requests that change what a report shows, and
\* the report requests
NextReports ==
    \/ \E b \in AttendanceBodies : PostAttendance(b)
    \/ \E b \in StudentBodies : PostStudent(b)
    \/ \E id \in TargetIds : DeleteStudent(id)
    \/ \E b \in ReportBodies : PostReportsGenerate(b)

SpecReports == Init /\ [][NextReports]_vars

\* SpecQueries serves the requests that only read the store, between
\* requests that change it
NextQueries ==
    \/ \E b \in AttendanceBodies : PostAttendance(b)
    \/ \E b \in StudentBodies : PostStudent(b)
    \/ \E id \in TargetIds : DeleteStudent(id)
    \/ \E c \in ClassFilters, s \in SectionFilters : GetStudents(c, s)
    \/ \E c \in {MISSING, "12"} : GetAttendance(today, c)
    \/ \E c \in {MISSING, "12"} : GetAttendanceStats(today, c)
    \/ \E id \in {1, Ghost} : GetStudentAttendance(id, NoRange)
    \/ \E b \in ReportBodies :
          b.type = "daily" /\ b.className = MISSING /\ PostReportsGenerate(b)
    \/ GetDashboardStats

SpecQueries == Init /\ [][NextQueries]_vars

-----------------------------------------------------------------------------
(* Logging in.  The login handler answers with the user; the browser keeps  *)
(* it in AuthContext.  No other handler reads a credential or a session.    *)

LoginBodies ==
    { [username |-> u, password |-> p, role |-> r] :
        u \in {"admin", "teacher", "nobody"},
        p \in {"admin123", "teacher123"},
        r \in {"admin", "teacher", "parent"} }
    \cup { [username |-> "admin", password |-> MISSING, role |-> "admin"],
           [username |-> MISSING, password |-> "admin123", role |-> "admin"],
           [username |-> "admin", password |-> "admin123", role |-> MISSING] }

\* loginSchema.parse
ValidLogin(b) ==
    /\ b.username # MISSING
    /\ b.password # MISSING
    /\ b.role \in {"admin", "teacher"}

\* the user as the login response carries it: without the password
UserSummary(user) ==
    [id |-> user.id, username |-> user.username, role |-> user.role,
     name |-> user.name, email |-> user.email]

LoginResponse(b) ==
    LET user == getUserByUsername(b.username)
    IN IF ~ValidLogin(b)
       THEN Response("POST /api/auth/login", b, 400, "Invalid request data", <<>>)
       ELSE IF user = Undefined \/ user.password # b.password \/ user.role # b.role
       THEN Response("POST /api/auth/login", b, 401, "Invalid credentials", <<>>)
       ELSE Response("POST /api/auth/login", b, 200, "", [user |-> UserSummary(user)])

\* the login form submitted: POST /api/auth/login, then login(result.user)
Login(b) ==
    /\ last' = LoginResponse(b)
    /\ client' = IF LoginResponse(b).code = 200
                 THEN [client EXCEPT !.user = LoginResponse(b).body.user]
                 ELSE client
    /\ UNCHANGED <<students, attendance, nextId, today, mutations, inflight, doc>>

\* AuthContext.logout
Logout ==
    /\ client.user # NoUser
    /\ client' = [client EXCEPT !.user = NoUser]
    /\ UNCHANGED <<students, attendance, nextId, today, mutations, inflight, last, doc>>

\* SpecAuth sends the handlers requests from a browser that logs in and out
NextAuth ==
    \/ \E b \in LoginBodies : Login(b)
    \/ Logout
    \/ \E b \in StudentBodies : PostStudent(b)
    \/ \E id \in TargetIds : DeleteStudent(id)
    \/ \E b \in AttendanceBodies : PostAttendance(b)
    \/ \E b \in ReportBodies :
          b.type = "daily" /\ b.className = MISSING /\ b.format = "csv" /\ PostReportsGenerate(b)

SpecAuth == Init /\ [][NextAuth]_vars

-----------------------------------------------------------------------------
(* The pages of the browser that send marking and report requests.          *)

\* apiRequest('POST', '/api/attendance/qr', { qrData }): the body of the
\* QR scanner page has no other field
QrScannerBody(qrCode) == [qrData |-> qrCode, method |-> MISSING]

\* scanForQRCode: a QR code detected in the camera frame is sent for marking
scanForQRCode(studentId) == PostAttendanceQr(QrScannerBody(QrData(studentId)))

\* the options of the report type select and of the date range select
ReportsPageTypes == {"daily", "student-wise", "class-wise", "absentee"}
DateRangePresets == {"last-7-days", "last-30-days", "this-month", "custom"}

\* useState(''): a custom date input left empty
EmptyDate == MissingId

\* new Date(today.getFullYear(), today.getMonth(), 1): the days of the
\* model lie in one month that starts on day 1
MonthStart == 1

\* getDateRange; each end is rendered as a YYYY-MM-DD day
getDateRange(dateRange, customDateFrom, customDateTo) ==
    IF dateRange = "last-7-days" THEN [from |-> today - 7, to |-> today]
    ELSE IF dateRange = "this-month" THEN [from |-> MonthStart, to |-> today]
    ELSE IF dateRange = "custom"
    THEN [from |-> IF customDateFrom # EmptyDate THEN customDateFrom ELSE today - 30,
          to |-> IF customDateTo # EmptyDate THEN customDateTo ELSE today]
    ELSE [from |-> today - 30, to |-> today]

\* the body generateReport posts
ReportsPageBody(reportType, range, selectedClass, format) ==
    [type |-> reportType, dateRange |-> range,
     className |-> IF selectedClass = "" THEN MISSING ELSE selectedClass,
     format |-> format]

\* generateReport(format), with the selections of the page
generateReport(reportType, dateRange, customDateFrom, customDateTo, selectedClass, format) ==
    PostReportsGenerate(
        ReportsPageBody(reportType, getDateRange(dateRange, customDateFrom, customDateTo),
                        selectedClass, format))

\* Math.random(), in tenths
Randoms == {0, 5, 9}

\* Math.floor(Math.random() * (95 - confidenceThreshold) + confidenceThreshold)
simulatedConfidence(random) ==
    (random * (95 - client.confidenceThreshold) + 10 * client.confidenceThreshold) \div 10

\* a face recognized by simulateFaceRecognition with a confidence that meets
\* the threshold is sent for marking (autoMarkAttendance as loaded: true)
recognizeAndMark(s, random) ==
    IF simulatedConfidence(random) >= client.confidenceThreshold
    THEN PostAttendanceFace([studentId |-> students[s].id, imageData |-> "data:image",
                             confidence |-> simulatedConfidence(random)])
    ELSE UNCHANGED vars

\* Start Recognition (shown while !isRecognizing): startCamera and, in
\* real-time mode, startFaceDetection, whose timer callback closes over the
\* isRecognizing of the render the click came from
startCamera ==
    /\ ~client.isRecognizing
    /\ Len(client.intervals) < MaxIntervals
    /\ client' = [client EXCEPT !.isRecognizing = TRUE,
                                !.intervals = Append(@, [isRecognizing |-> client.isRecognizing])]
    /\ UNCHANGED <<students, attendance, nextId, today, mutations, inflight, last, doc>>

\* Stop Recognition (shown while isRecognizing)
stopCamera ==
    /\ client.isRecognizing
    /\ client' = [client EXCEPT !.isRecognizing = FALSE]
    /\ UNCHANGED <<students, attendance, nextId, today, mutations, inflight, last, doc>>

\* a 2-second tick of timer i: the callback of startFaceDetection
Tick(i, s, random) ==
    IF ~client.intervals[i].isRecognizing
    THEN /\ client' = [client EXCEPT !.intervals = RemoveAt(@, i)]
         /\ UNCHANGED <<students, attendance, nextId, today, mutations, inflight, last, doc>>
    ELSE recognizeAndMark(s, random)

\* Capture (enabled while isRecognizing)
captureImage(s, random) ==
    /\ client.isRecognizing
    /\ recognizeAndMark(s, random)

\* the confidence slider moved: min 50, max 100, step 5
setConfidenceThreshold(threshold) ==
    /\ client' = [client EXCEPT !.confidenceThreshold = threshold]
    /\ UNCHANGED <<students, attendance, nextId, today, mutations, inflight, last, doc>>

NextFace ==
    \/ startCamera
    \/ stopCamera
    \/ \E i \in 1..Len(client.intervals), s \in 1..Len(students), r \in Randoms : Tick(i, s, r)
    \/ \E s \in 1..Len(students), r \in Randoms : captureImage(s, r)
    \/ \E t \in {50 + 5 * k : k \in 0..10} : setConfidenceThreshold(t)

SpecFace == Init /\ [][NextFace]_vars

NextPages ==
    \/ \E id \in IssuedIds \cup {Ghost} : scanForQRCode(id)
    \/ \E t \in ReportsPageTypes, p \in DateRangePresets, c \in {"", "12"},
          f \in ReportFormats, from \in {EmptyDate, 1}, to \in {EmptyDate, today} :
          /\ p # "custom" => (from = EmptyDate /\ to = EmptyDate)
          /\ generateReport(t, p, from, to, c, f)
    \/ \E id \in TargetIds : DeleteStudent(id)
    \/ NextDay

SpecPages == Init /\ [][NextPages]_vars

-----------------------------------------------------------------------------
(* qr-utils.  A JSON value is a string (its characters), a number or        *)
(* undefined (a member that is absent).  A JSON text is the sequence of its *)
(* members as written, or text that JSON.parse rejects; an object is the    *)
(* value of each key.  Escaping of characters inside string literals, which *)
(* stringify applies and parse undoes, is not represented.                  *)

JString(chars) == [type |-> "string", chars |-> chars]
JNumber == [type |-> "number", chars |-> <<"7">>]
JUndefined == [type |-> "undefined", chars |-> <<>>]

\* the members of QRData, in the order of the object literals
QRKeys == <<"studentId", "admissionNo", "name", "className", "section", "timestamp">>

NotJsonText == [json |-> FALSE, members |-> <<>>]

\* JSON.stringify: the members that are not undefined, in the order of the keys
JSON_stringify(obj) ==
    [json |-> TRUE,
     members |-> SelectSeq([i \in 1..Len(QRKeys) |-> [key |-> QRKeys[i], value |-> obj[QRKeys[i]]]],
                           LAMBDA m : m.value # JUndefined)]

\* JSON.parse of text that is JSON: each key has the value of its member
JSON_parse(text) ==
    [k \in {QRKeys[i] : i \in 1..Len(QRKeys)} |->
        LET hits == SelectSeq(text.members, LAMBDA m : m.key = k)
        IN IF hits = <<>> THEN JUndefined ELSE hits[Len(hits)].value]

\* !value
Falsy(value) == value = JUndefined \/ value = JString(<<>>)

\* parseQRData returned null
NoQRData == [null |-> TRUE]

parseQRData(qrString) ==
    IF ~qrString.json THEN NoQRData
    ELSE LET data == JSON_parse(qrString)
         IN IF Falsy(data.studentId) \/ Falsy(data.admissionNo) \/ Falsy(data.name)
            THEN NoQRData
            ELSE [studentId |-> data.studentId, admissionNo |-> data.admissionNo,
                  name |-> data.name, className |-> data.className,
                  section |-> data.section,
                  timestamp |-> IF Falsy(data.timestamp) THEN JString(<<"now">>) ELSE data.timestamp]

isValidQRFormat(qrString) == parseQRData(qrString) # NoQRData

\* value.replace(/[<>\"'&]/g, '') of a string
Replaced(value) == JString(SelectSeq(value.chars, LAMBDA c : c \notin {"<", ">", "\"", "'", "&"}))

\* value?.replace(/[<>\"'&]/g, '')
ReplacedIfPresent(value) == IF value = JUndefined THEN JUndefined ELSE Replaced(value)

\* the outcomes of sanitizeQRData: null, a string, or the TypeError of
\* calling replace on a value that is not a string
Sanitized(kind, text) == [kind |-> kind, text |-> text]

sanitizeQRData(qrString) ==
    LET data == parseQRData(qrString)
    IN IF data = NoQRData THEN Sanitized("null", NotJsonText)
       ELSE IF \E k \in {"studentId", "admissionNo", "name", "className", "section"} :
                  data[k].type = "number"
       THEN Sanitized("throws", NotJsonText)
       ELSE Sanitized("string",
             JSON_stringify(
                 [studentId |-> Replaced(data.studentId),
                  admissionNo |-> Replaced(data.admissionNo),
                  name |-> Replaced(data.name),
                  className |-> ReplacedIfPresent(data.className),
                  section |-> ReplacedIfPresent(data.section),
                  timestamp |-> data.timestamp]))

\* the values a required member of a scanned text takes
RequiredValues ==
    { JString(chars) : chars \in {<<>>, <<"A">>, <<"<">>, <<"A", "<">>} }
    \cup {JUndefined, JNumber}

\* the scanned texts
QrStrings ==
    { JSON_stringify([studentId |-> s, admissionNo |-> a, name |-> n, className |-> c,
                      section |-> JUndefined, timestamp |-> t]) :
        s \in RequiredValues, a \in RequiredValues, n \in RequiredValues,
        c \in {JUndefined, JString(<<"1", "&">>)},
        t \in {JUndefined, JString(<<"T">>)} }
    \cup {NotJsonText}

InitQrUtils ==
    /\ students = sampleStudents
    /\ today = 1
    /\ attendance = sampleAttendance(1)
    /\ nextId = 4
    /\ mutations = 0
    /\ inflight = <<>>
    /\ doc = NoDocument
    /\ client = ClientLoaded
    /\ last \in {Response("scan", qrString, 0, "", Sanitized("null", NotJsonText)) : qrString \in QrStrings}

\* sanitizeQRData applied to the scanned text
Sanitize ==
    /\ last.op = "scan"
    /\ last' = Response("sanitizeQRData", last.req, 0, "", sanitizeQRData(last.req))
    /\ UNCHANGED <<students, attendance, nextId, today, mutations, inflight, doc, client>>

SpecQrUtils == InitQrUtils /\ [][Sanitize]_vars

-----------------------------------------------------------------------------
(* The data rows of the PDF report: the loop of the handler over            *)
(* reportData, one row per step, for documents of up to MaxPdfRows rows.    *)

\* let yPosition = 200: where the column headers are drawn
PdfHeaderY == 200
\* yPosition += 20 after the headers
PdfHeaderGap == 20
\* yPosition += 15 after a row
PdfRowGap == 15
\* if (yPosition > 700)
PdfPageBottom == 700
\* yPosition = 50 on a new page
PdfPageTop == 50

\* a page break that comes one row late
NeedsNewPageLate(yPosition) == yPosition > PdfPageBottom + PdfRowGap

NeedsNewPage(yPosition) == yPosition > PdfPageBottom

\* the document once its title and headers are written, rows data rows to go
NewDocument(rows) ==
    [rows |-> rows, positions |-> <<>>,
     yPosition |-> PdfHeaderY + PdfHeaderGap, page |-> 1]

\* one pass of for (const data of reportData)
DrawRow ==
    /\ doc.rows > 0
    /\ LET addPage == NeedsNewPage(doc.yPosition)
           page == IF addPage THEN doc.page + 1 ELSE doc.page
           y == IF addPage THEN PdfPageTop ELSE doc.yPosition
       IN  doc' = [rows |-> doc.rows - 1,
                   positions |-> Append(doc.positions, [page |-> page, y |-> y]),
                   yPosition |-> y + PdfRowGap,
                   page |-> page]
    /\ UNCHANGED <<students, attendance, nextId, today, mutations, inflight, last, client>>

InitPdf ==
    /\ students = sampleStudents
    /\ attendance = sampleAttendance(1)
    /\ nextId = 4
    /\ today = 1
    /\ mutations = 0
    /\ inflight = <<>>
    /\ last = NoRequest
    /\ client = ClientLoaded
    /\ doc \in {NewDocument(rows) : rows \in 0..MaxPdfRows}

SpecPdf == InitPdf /\ [][DrawRow]_vars

-----------------------------------------------------------------------------
(* The two marking handlers with their awaits as scheduling points.  A     *)
(* call of a MemStorage method reads or writes the maps at the call; the   *)
(* handler then waits for the promise and another handler may run.  A      *)
(* suspended handler keeps its locals: student, today, existingAttendance. *)

Frame(op, b, pc, student, date, existingAttendance) ==
    [op |-> op, b |-> b, pc |-> pc, student |-> student, date |-> date,
     existingAttendance |-> existingAttendance]

\* POST /api/attendance/qr up to `await storage.getStudent(...)`
BeginQr(b) ==
    /\ Len(inflight) < MaxInflight
    /\ IF ~ValidQrAttendance(b) \/ ~b.qrData.json
       THEN /\ last' = QrRejected(b)
            /\ UNCHANGED inflight
       ELSE /\ inflight' = Append(inflight,
                               Frame(QrOp, b, "getStudent",
                                     getStudent(b.qrData.studentId), 0, Undefined))
            /\ UNCHANGED last
    /\ UNCHANGED <<students, attendance, nextId, today, mutations, doc, client>>

\* POST /api/attendance/face up to `await storage.getStudent(...)`
BeginFace(b) ==
    /\ Len(inflight) < MaxInflight
    /\ IF ~ValidFaceRecognition(b) \/ ConfidenceTooLow(b.confidence)
       THEN /\ last' = FaceRejected(b)
            /\ UNCHANGED inflight
       ELSE /\ inflight' = Append(inflight,
                               Frame(FaceOp, b, "getStudent",
                                     getStudent(b.studentId), 0, Undefined))
            /\ UNCHANGED last
    /\ UNCHANGED <<students, attendance, nextId, today, mutations, doc, client>>

\* from the student lookup's result to `await storage.getAttendance(...)`
AfterGetStudent(i) ==
    LET f == inflight[i]
    IN /\ f.pc = "getStudent"
       /\ IF f.student = Undefined
          THEN /\ last' = StudentNotFound(f.op, f.b)
               /\ inflight' = RemoveAt(inflight, i)
          ELSE /\ inflight' = [inflight EXCEPT ![i] =
                                  Frame(f.op, f.b, "getAttendance", f.student, today,
                                        getAttendance(f.student.id, today))]
               /\ UNCHANGED last
       /\ UNCHANGED <<students, attendance, nextId, today, mutations, doc, client>>

\* from the duplicate check's result to the response
AfterGetAttendance(i) ==
    LET f == inflight[i]
        record == newAttendance(MarkPresent(f.student, f.date, MethodOf(f.op)),
                                Len(attendance) + 1)
    IN /\ f.pc = "getAttendance"
       /\ inflight' = RemoveAt(inflight, i)
       /\ IF f.existingAttendance # Undefined
          THEN /\ last' = AlreadyMarked(f.op, f.b)
               /\ UNCHANGED <<attendance, mutations>>
          ELSE /\ mutations < MaxMutations
               /\ mutations' = mutations + 1
               /\ attendance' = Append(attendance, record)
               /\ last' = Marked(f.op, f.b, f.student, record)
       /\ UNCHANGED <<students, nextId, today, doc, client>>

NextAsync ==
    \/ \E b \in QrBodies : BeginQr(b)
    \/ \E b \in FaceBodies : BeginFace(b)
    \/ \E i \in 1..Len(inflight) : AfterGetStudent(i)
    \/ \E i \in 1..Len(inflight) : AfterGetAttendance(i)

SpecAsync == Init /\ [][NextAsync]_vars

-----------------------------------------------------------------------------
(* Properties *)

ManualOp == "POST /api/attendance"
CreateStudentOp == "POST /api/students"
UpdateStudentOp == "PUT /api/students/:id"
DeleteStudentOp == "DELETE /api/students/:id"
BulkUploadOp == "POST /api/students/bulk-upload"
StatsOp == "GET /api/attendance/stats"
StudentAttendanceOp == "GET /api/attendance/student/:studentId"
StudentsOp == "GET /api/students"

\* r is a mark submission that passes request validation (and, for a face
\* submission, the confidence threshold)
IsValidMark(r) ==
    \/ r.op = ManualOp /\ r.req.status # MISSING
    \/ r.op = QrOp /\ r.req.method = "qr" /\ r.req.qrData.json
    \/ r.op = FaceOp /\ r.req.imageData # MISSING
                     /\ r.req.confidence >= 80 /\ r.req.confidence <= 100

Range(seq) == { seq[i] : i \in 1..Len(seq) }

\* the student and the day a mark submission is for
MarkStudent(r) ==
    IF r.op = QrOp THEN r.req.qrData.studentId ELSE r.req.studentId

MarkDate(r, day) == IF r.op = ManualOp THEN r.req.date ELSE day

RecordsFor(studentId, date) ==
    { i \in 1..Len(attendance) :
        attendance[i].studentId = studentId /\ attendance[i].date = date }

\* C1: the attendance store holds at most one record for each
\* (studentId, date) pair
C1_OneRecordPerStudentAndDate ==
    \A i, j \in 1..Len(attendance) :
        (attendance[i].studentId = attendance[j].studentId
         /\ attendance[i].date = attendance[j].date) => i = j

\* C2: when a valid mark submission for an existing student S and a date D
\* has created a record and the next request is a valid mark submission for
\* the same S and D, that request is rejected and the attendance store is
\* left unchanged
C2_SecondMarkRejected ==
    [][ ( /\ IsValidMark(last) /\ last.code \in {200, 201}
          /\ getStudent(MarkStudent(last)) # Undefined
          /\ IsValidMark(last')
          /\ MarkStudent(last') = MarkStudent(last)
          /\ MarkDate(last', today) = MarkDate(last, today) )
        => (last'.code = 400 /\ attendance' = attendance) ]_vars

\* C3: no two records of one student and one day were both created by the
\* QR and face handlers
C3_AtMostOneConcurrentMark ==
    \A i, j \in 1..Len(attendance) :
        (/\ attendance[i].studentId = attendance[j].studentId
         /\ attendance[i].date = attendance[j].date
         /\ attendance[i].method \in {"qr", "face"}
         /\ attendance[j].method \in {"qr", "face"}) => i = j

\* C4: a valid mark submission whose studentId resolves to no stored
\* student is answered 404 and creates no record
C4_UnknownStudentRejected ==
    [][ (IsValidMark(last') /\ last' # last
         /\ getStudent(MarkStudent(last')) = Undefined)
        => (last'.code = 404 /\ attendance' = attendance) ]_vars

\* C5: a face submission with a confidence c in 0..100 is rejected as
\* low-confidence exactly when c < 80, whoever the student is and with no
\* record created; with c >= 80, an existing student and no record for
\* today it appends exactly one record, with status present and method face
C5_FaceConfidenceThreshold ==
    [][ (last'.op = FaceOp /\ last'.req.imageData # MISSING
         /\ last'.req.confidence \in 0..100)
        => LET b == last'.req
           IN /\ (last'.message = "Face recognition confidence too low")
                    <=> (b.confidence < 80)
              /\ b.confidence < 80
                    => (last'.code = 400 /\ attendance' = attendance)
              /\ (/\ b.confidence >= 80
                  /\ getStudent(b.studentId) # Undefined
                  /\ RecordsFor(b.studentId, today) = {})
                    => /\ last'.code = 200
                       /\ Len(attendance') = Len(attendance) + 1
                       /\ SubSeq(attendance', 1, Len(attendance)) = attendance
                       /\ LET a == attendance'[Len(attendance')]
                          IN /\ a.studentId = b.studentId
                             /\ a.date = today
                             /\ a.status = "present"
                             /\ a.method = "face" ]_vars

\* a face submission with confidence exactly 80 has just been accepted
C5_Witness ==
    /\ last.op = FaceOp
    /\ last.req.confidence = 80
    /\ last.code = 200
    /\ attendance[Len(attendance)].method = "face"
    /\ attendance[Len(attendance)].studentId = last.req.studentId

\* C6: every stored record has a status among present, absent, late and a
\* method among qr, face, manual, null, and a manual submission carrying
\* another status or method is answered 400
C6_StatusAndMethodEnumerated ==
    /\ \A i \in 1..Len(attendance) :
          attendance[i].status \in Statuses /\ attendance[i].method \in Methods
    /\ (/\ last.op = ManualOp
        /\ \/ last.req.status \notin Statuses
           \/ last.req.method \notin Methods \cup {MISSING})
       => last.code = 400

\* C7: no two stored students have the same admission number
C7_AdmissionNoUnique ==
    \A i, j \in 1..Len(students) :
        students[i].admissionNo = students[j].admissionNo => i = j

\* C8: the statistics returned for a date D and class filter count the
\* students in scope, the in-scope records on D by status, and as absent
\* the absent records plus the in-scope students with no record on D
C8_DailyStats ==
    last.op = StatsOp =>
        LET d == last.req.date
            c == last.req.className
            inScope == { i \in 1..Len(students) :
                           c = MISSING \/ students[i].className = c }
            scopeIds == { students[i].id : i \in inScope }
            records == { j \in 1..Len(attendance) :
                           /\ attendance[j].date = d
                           /\ c = MISSING \/ attendance[j].studentId \in scopeIds }
            With(status) == Cardinality({ j \in records : attendance[j].status = status })
            unmarked == { i \in inScope : RecordsFor(students[i].id, d) = {} }
            stats == last.body
        IN /\ stats.totalStudents = Cardinality(inScope)
           /\ stats.present = With("present")
           /\ stats.late = With("late")
           /\ stats.absent = With("absent") + Cardinality(unmarked)
           /\ IF Cardinality(inScope) = 0
              THEN stats.attendanceRate.num = 0
              ELSE stats.attendanceRate.num * Cardinality(inScope)
                     = With("present") * 100 * stats.attendanceRate.den

\* C9: the percentage returned for a student and an optional date range is
\* (records in range with status present or late) / (records in range) x 100,
\* and 0 when no record is in range
C9_StudentPercentage ==
    last.op = StudentAttendanceOp =>
        LET r == last.req.dateRange
            inRange == { j \in 1..Len(attendance) :
                           /\ attendance[j].studentId = last.req.studentId
                           /\ r = NoRange
                              \/ (r.from <= attendance[j].date /\ attendance[j].date <= r.to) }
            attended == { j \in inRange : attendance[j].status \in {"present", "late"} }
            p == last.body.percentage
        IN IF inRange = {}
           THEN p.num = 0
           ELSE p.num * Cardinality(inRange) = Cardinality(attended) * 100 * p.den

\* the percentage of a history of one present, one absent and one late
\* record has just been returned: 2/3 x 100
C9_Witness ==
    /\ last.op = StudentAttendanceOp
    /\ Len(last.body.history) = 3
    /\ { last.body.history[k].status : k \in 1..3 } = Statuses
    /\ last.body.percentage.num * 3 = 200 * last.body.percentage.den

\* C10: the list returned for a filter holds exactly the stored students
\* that match each non-empty filter field, ascending by name, students of
\* equal name in insertion order
C10_GetStudentsFilteredAndSorted ==
    last.op = StudentsOp =>
        LET f == last.req
            res == last.body
            Match(s) == /\ f.className \in {MISSING, ""} \/ s.className = f.className
                        /\ f.section \in {MISSING, ""} \/ s.section = f.section
            matching == { i \in 1..Len(students) : Match(students[i]) }
            Pos(s) == CHOOSE i \in 1..Len(students) : students[i].id = s.id
        IN /\ { res[k] : k \in 1..Len(res) } = { students[i] : i \in matching }
           /\ Len(res) = Cardinality(matching)
           /\ \A k, l \in 1..Len(res) :
                 k < l => /\ NameRank(res[k].name) <= NameRank(res[l].name)
                          /\ res[k].name = res[l].name => Pos(res[k]) < Pos(res[l])

\* a filtered list holding two students of the same name has just been
\* returned
C10_Witness ==
    /\ last.op = StudentsOp
    /\ last.req.className = "12"
    /\ Len(last.body) < Len(students)
    /\ \E k \in 1..(Len(last.body) - 1) : last.body[k].name = last.body[k + 1].name


\* C11: the history returned for a student and a range holds exactly the
\* student's records dated d with from <= d <= to, each once, and every
\* record of the student when no range is given
C11_HistoryRangeInclusive ==
    last.op = StudentAttendanceOp =>
        LET r == last.req.dateRange
            h == last.body.history
            expected == { j \in 1..Len(attendance) :
                            /\ attendance[j].studentId = last.req.studentId
                            /\ r = NoRange
                               \/ (r.from <= attendance[j].date /\ attendance[j].date <= r.to) }
        IN /\ { h[k] : k \in 1..Len(h) } = { attendance[j] : j \in expected }
           /\ Len(h) = Cardinality(expected)

\* a history has just been returned for a one-day range that holds a record
\* of the student, who has another record outside the range
C11_Witness ==
    /\ last.op = StudentAttendanceOp
    /\ last.req.dateRange # NoRange
    /\ last.req.dateRange.from = last.req.dateRange.to
    /\ Len(last.body.history) >= 1
    /\ \E j \in 1..Len(attendance) :
          /\ attendance[j].studentId = last.req.studentId
          /\ attendance[j].date > last.req.dateRange.to


\* C17: a student just created has an identifier no stored student had,
\* is appended to the store as returned, has qrCode 'QR_' followed by the
\* admission number, and holds null in every optional field the input
\* does not have
C17_CreateStudent ==
    [][ (last'.op = CreateStudentOp /\ last'.code = 201)
        => LET s == last'.body
               b == last'.req
           IN /\ \A i \in 1..Len(students) : students[i].id # s.id
              /\ students' = Append(students, s)
              /\ s.qrCode = qrCodeOf(b.admissionNo)
              /\ \A f \in OptionalFields : b[f] = MISSING => s[f] = NULL ]_vars


\* C18: no step changes the admission number of a student that stays in
\* the store
C18_AdmissionNoImmutable ==
    [][ \A i \in 1..Len(students), j \in 1..Len(students') :
            students[i].id = students'[j].id
                => students'[j].admissionNo = students[i].admissionNo ]_vars

\* C19: an update or a delete for an identifier the store does not hold is
\* answered not found and leaves the student store as it was; an update for
\* an identifier the store holds replaces that student by a record with the
\* same identifier, the fields of the updates, and every other field as
\* before, and leaves the other students as they were
C19_UpdateAndDeleteNotFound ==
    [][ /\ (last'.op = DeleteStudentOp /\ getStudent(last'.req) = Undefined)
            => (last'.code = 404 /\ students' = students)
        /\ last'.op = UpdateStudentOp
            => LET id == last'.req[1]
                   upd == last'.req[2]
                   old == getStudent(id)
                   new == last'.body
               IN IF old = Undefined
                  THEN last'.code = 404 /\ students' = students
                  ELSE /\ last'.code = 200
                       /\ new.id = id
                       /\ DOMAIN new = DOMAIN old
                       /\ \A f \in DOMAIN old :
                             new[f] = IF f \in DOMAIN upd THEN upd[f] ELSE old[f]
                       /\ Len(students') = Len(students)
                       /\ \A i \in 1..Len(students) :
                             students'[i] = IF students[i].id = id THEN new
                                            ELSE students[i] ]_vars

\* an update has just changed the name of a sample student and kept the
\* student's identifier and admission number
C19_Witness ==
    /\ last.op = UpdateStudentOp
    /\ last.code = 200
    /\ getStudent(last.req[1]) = last.body
    /\ \E i \in 1..Len(sampleStudents) :
          /\ sampleStudents[i].id = last.req[1]
          /\ last.body.name # sampleStudents[i].name
          /\ last.body.admissionNo = sampleStudents[i].admissionNo

\* C20: a bulk create returns as many students as its input has elements,
\* the i-th being the student created from the i-th element, with
\* identifiers no stored student had, and appends exactly those students
\* to the store
C20_BulkCreateInOrder ==
    [][ (last'.op = BulkUploadOp /\ last'.code = 200)
        => LET rows == last'.req
               created == last'.body
           IN /\ Len(created) = Len(rows)
              /\ \A i \in 1..Len(rows) :
                    /\ created[i] = newStudent(rows[i], created[i].id)
                    /\ \A k \in 1..Len(students) : students[k].id # created[i].id
                    /\ \A k \in 1..Len(rows) : created[k].id = created[i].id => k = i
              /\ Len(students') = Len(students) + Len(rows)
              /\ students' = students \o created ]_vars

\* a bulk create of two different rows has just been answered
C20_Witness ==
    /\ last.op = BulkUploadOp
    /\ last.code = 200
    /\ Len(last.body) = 2
    /\ last.body[1].admissionNo # last.body[2].admissionNo
    /\ SubSeq(students, Len(students) - 1, Len(students)) = last.body


\* C12: a delete of a stored student leaves the attendance store, and with
\* it the records of the deleted identifier, as it was, and takes the
\* student out of the student store; an identifier that is not in the store
\* never comes back into it; and the result of getStudents, for every
\* filter, holds stored students only, hence no deleted one
C12_DeleteStudentFrame ==
    /\ [][ \A id \in IssuedIds \cup {Ghost} :
              /\ (last'.op = DeleteStudentOp /\ last'.code = 200 /\ last'.req = id)
                 => /\ \E k \in 1..Len(students) : students[k].id = id
                    /\ attendance' = attendance
                    /\ { a \in Range(attendance') : a.studentId = id }
                          = { a \in Range(attendance) : a.studentId = id }
                    /\ \A k \in 1..Len(students') : students'[k].id # id
              /\ (\A k \in 1..Len(students) : students[k].id # id)
                 => (\A k \in 1..Len(students') : students'[k].id # id) ]_vars
    /\ [](\A c \in ClassFilters, s \in SectionFilters :
             Range(getStudents([className |-> c, section |-> s])) \subseteq Range(students))

\* a student who has attendance records has just been deleted
C12_Witness ==
    /\ last.op = DeleteStudentOp
    /\ last.code = 200
    /\ getStudent(last.req) = Undefined
    /\ Len(getAttendanceHistory(last.req, NoRange)) >= 1

\* the row values of a report: of an element of reportData, and of a data
\* line of delimited text read back
JsonRowValues(r) ==
    [admissionNo |-> r.student.admissionNo, name |-> r.student.name,
     class |-> ClassLabel(r.student), totalDays |-> r.totalDays,
     presentDays |-> r.presentDays, absentDays |-> r.absentDays,
     percentage |-> r.percentage]

CsvRowValues(line) ==
    [admissionNo |-> line[1][1], name |-> line[2][1], class |-> line[3],
     totalDays |-> TextNumber(line[4]), presentDays |-> TextNumber(line[5]),
     absentDays |-> TextNumber(line[6]), percentage |-> TextNumber(line[7])]

\* a date range bound that is a date
Parseable(d) == d \in Nat /\ d # NotADate

\* C13: for a kind, a date range and a class filter, the report requested
\* as delimited text and the report requested with no encoding are both
\* produced and hold the same row values in the same order
C13_CsvAndStructuredAgree ==
    (/\ last.op = ReportOp
     /\ last.req.type \in ReportKinds
     /\ Parseable(last.req.dateRange.from) /\ Parseable(last.req.dateRange.to)
     /\ last.req.format \in {"csv", MISSING})
    => LET csv == ReportResponse([last.req EXCEPT !.format = "csv"])
           structured == ReportResponse([last.req EXCEPT !.format = MISSING])
       IN /\ last.code = 200
          /\ csv.code = 200
          /\ structured.code = 200
          /\ Len(csv.body.content) = Len(structured.body.content) + 1
          /\ \A i \in 1..Len(structured.body.content) :
                CsvRowValues(csv.body.content[i + 1])
                   = JsonRowValues(structured.body.content[i])

\* C14: the answer to a report request is the answer to the same request
\* with any other kind
C14_KindDoesNotAlterRows ==
    (last.op = ReportOp /\ last.req.type \in ReportKinds)
    => \A t \in ReportKinds :
          LET other == ReportResponse([last.req EXCEPT !.type = t])
          IN /\ other.code = last.code
             /\ last.code = 200 => other.body = last.body

\* a daily report has just been produced over a range of several days in
\* which a stored student has a record after the first day
C14_Witness ==
    /\ last.op = ReportOp
    /\ last.code = 200
    /\ last.req.type = "daily"
    /\ \E j \in 1..Len(attendance) :
          /\ getStudent(attendance[j].studentId) # Undefined
          /\ attendance[j].date > last.req.dateRange.from
          /\ attendance[j].date <= last.req.dateRange.to

\* C15: a report in delimited text has one data row per student of
\* getStudents for the class filter, in that order, with totalDays the
\* number of the student's records in the range, presentDays the number of
\* those with status present or late, absentDays the number with status
\* absent, and presentDays + absentDays = totalDays
C15_ReportRows ==
    (last.op = ReportOp /\ last.code = 200 /\ last.req.format = "csv")
    => LET studs == getStudents([className |-> last.req.className, section |-> MISSING])
           lines == last.body.content
           r == last.req.dateRange
           InRange(s) == { j \in 1..Len(attendance) :
                             /\ attendance[j].studentId = s.id
                             /\ r.from <= attendance[j].date
                             /\ attendance[j].date <= r.to }
           With(s, statuses) ==
               Cardinality({ j \in InRange(s) : attendance[j].status \in statuses })
       IN /\ Len(lines) = Len(studs) + 1
          /\ \A i \in 1..Len(studs) :
                LET row == CsvRowValues(lines[i + 1])
                IN /\ row.admissionNo = studs[i].admissionNo
                   /\ row.name = studs[i].name
                   /\ row.class = ClassLabel(studs[i])
                   /\ row.totalDays = Cardinality(InRange(studs[i]))
                   /\ row.presentDays = With(studs[i], {"present", "late"})
                   /\ row.absentDays = With(studs[i], {"absent"})
                   /\ row.presentDays + row.absentDays = row.totalDays

\* the data rows of a produced report
DataRows(body) ==
    IF body.filename = "attendance-report.pdf" THEN body.content
    ELSE SubSeq(body.content, 2, Len(body.content))

\* C16: a report request that names an encoding fails exactly when its
\* kind is not a report kind or a bound of its date range is absent or is
\* not a date; when it does not fail and its class filter matches no
\* student, the report is produced with no data row
C16_ReportFailsOnlyWhenMalformed ==
    (last.op = ReportOp /\ last.req.format \in ReportFormats)
    => LET b == last.req
           malformed == \/ b.type \notin ReportKinds
                        \/ ~Parseable(b.dateRange.from)
                        \/ ~Parseable(b.dateRange.to)
           matching == { i \in 1..Len(students) :
                           b.className = MISSING \/ students[i].className = b.className }
       IN /\ (last.code = 400) <=> malformed
          /\ (~malformed /\ matching = {})
                => (last.code = 200 /\ DataRows(last.body) = <<>>)


\* the requests that query and aggregate
QueryOps ==
    {StudentsOp, "GET /api/attendance", StatsOp, StudentAttendanceOp, ReportOp, DashboardOp}

\* C21: a request that queries or aggregates leaves the student store, the
\* attendance store and the identifiers issued as they were
C21_QueriesLeaveStoreUnchanged ==
    [][ last'.op \in QueryOps
        => (students' = students /\ attendance' = attendance /\ nextId' = nextId) ]_vars

\* the students have just been listed while the store holds them in an
\* order that is not the order of their names
C21_Witness ==
    /\ last.op = StudentsOp
    /\ \E i, j \in 1..Len(students) :
          i < j /\ NameRank(students[i].name) > NameRank(students[j].name)


\* the students of one class: its name and its section
StudentsOfClass(cls) ==
    {i \in 1..Len(students) :
        students[i].className = cls.name /\ students[i].section = cls.section}

\* the records of a day, with a status, of the students of one class
MarksOfClass(cls, date, status) ==
    {k \in 1..Len(attendance) :
        /\ attendance[k].date = date
        /\ attendance[k].status = status
        /\ \E i \in StudentsOfClass(cls) : students[i].id = attendance[k].studentId}

\* C26: the class-wise list of the dashboard has one entry per class, keyed
\* name-section, and the counts of an entry cover exactly the students of
\* that class name and that section
C26_ClassWiseCountsOwnSection ==
    last.op = DashboardOp =>
        /\ Len(last.body.byClass) = Len(sampleClasses)
        /\ \A i \in 1..Len(sampleClasses) :
              LET cls == sampleClasses[i]
                  entry == last.body.byClass[i]
              IN  /\ entry.class = <<cls.name, "-", cls.section>>
                  /\ entry.totalStudents = Cardinality(StudentsOfClass(cls))
                  /\ entry.present = Cardinality(MarksOfClass(cls, last.req, "present"))
                  /\ entry.late = Cardinality(MarksOfClass(cls, last.req, "late"))


\* C27: each of the counts present, absent and late of the daily
\* statistics lies between 0 and totalStudents
C27_DailyCountsWithinTotal ==
    last.op = StatsOp =>
        \A n \in {last.body.present, last.body.absent, last.body.late} :
            0 <= n /\ n <= last.body.totalStudents


\* C23: every data row of the PDF report is drawn at a vertical position
\* between 50 and 700 inclusive, and a row whose position would exceed 700
\* is drawn at 50 on a new page
C23_PdfRowsWithinPage ==
    /\ [](\A i \in 1..Len(doc.positions) :
             PdfPageTop <= doc.positions[i].y /\ doc.positions[i].y <= PdfPageBottom)
    /\ [][ (doc.yPosition > PdfPageBottom /\ Len(doc'.positions) = Len(doc.positions) + 1)
           => /\ doc'.page = doc.page + 1
              /\ doc'.positions[Len(doc'.positions)] = [page |-> doc'.page, y |-> PdfPageTop] ]_vars

\* a finished document of three pages with a row at 700 and a row at 50
C23_Witness ==
    /\ doc.rows = 0
    /\ doc.page >= 3
    /\ \E i, j \in 1..Len(doc.positions) :
          /\ doc.positions[i].y = PdfPageBottom
          /\ doc.positions[j].y = PdfPageTop
          /\ doc.positions[j].page = doc.positions[i].page + 1


\* the student-management, marking and report requests
ProtectedOps ==
    {CreateStudentOp, UpdateStudentOp, DeleteStudentOp, BulkUploadOp,
     ManualOp, QrOp, FaceOp, ReportOp}

\* C22: a student-management, marking or report request made while nobody
\* has logged in is rejected and changes no stored data
C22_OnlyLoggedInCallersServed ==
    [][ (client.user = NoUser /\ last'.op \in ProtectedOps /\ last' # last)
        => (last'.code >= 400 /\ students' = students /\ attendance' = attendance) ]_vars


\* C24: the request the QR scanner page sends for an existing student with
\* no record for today passes validation and stores a present/qr record of
\* today for that student
C24_QrScannerPageMarks ==
    [][ \A id \in IssuedIds :
          ( /\ last'.op = QrOp
            /\ last'.req = QrScannerBody(QrData(id))
            /\ getStudent(id) # Undefined
            /\ getAttendance(id, today) = Undefined )
          => /\ last'.code = 200
             /\ Len(attendance') = Len(attendance) + 1
             /\ attendance'[Len(attendance')].studentId = id
             /\ attendance'[Len(attendance')].date = today
             /\ attendance'[Len(attendance')].status = "present"
             /\ attendance'[Len(attendance')].method = "qr" ]_vars

\* the bodies the Reports page can post today
ReportsPageRequests ==
    { ReportsPageBody(t, getDateRange(p, from, to), c, f) :
        t \in ReportsPageTypes, p \in DateRangePresets, c \in {"", "12"},
        f \in ReportFormats, from \in {EmptyDate} \cup Days, to \in {EmptyDate} \cup Days }

\* C30: no report request of the Reports page is rejected as invalid
C30_ReportsPageRequestsValid ==
    (last.op = ReportOp /\ last.req \in ReportsPageRequests)
        => (ValidReportGeneration(last.req) /\ last.code = 200)


\* C25: whatever the position of the confidence slider, a recognition that
\* meets the threshold and is sent for marking is not rejected by the
\* server as low-confidence
C25_ThresholdMetIsNotTooLow ==
    [][ ( /\ last'.op = FaceOp
          /\ client' = client
          /\ last'.req.confidence >= client.confidenceThreshold )
        => last'.message # "Face recognition confidence too low" ]_vars

\* C29: a tick while recognition runs invokes detectAndRecognizeFace (the
\* callback does not clear its timer instead), and no recognition request
\* leaves the page while recognition is stopped
C29_DetectsOnEveryTickUntilStopped ==
    [][ /\ client.isRecognizing => Len(client'.intervals) >= Len(client.intervals)
        /\ (~client.isRecognizing /\ ~client'.isRecognizing)
              => (last'.op = FaceOp => last' = last) ]_vars


\* C28: a string returned by sanitizeQRData is a valid QR payload, and
\* sanitizing it again returns a payload with the same studentId,
\* admissionNo and name
C28_SanitizedIsValidAndStable ==
    (last.op = "sanitizeQRData" /\ last.body.kind = "string")
        => /\ isValidQRFormat(last.body.text)
           /\ sanitizeQRData(last.body.text).kind = "string"
           /\ \A k \in {"studentId", "admissionNo", "name"} :
                 JSON_parse(sanitizeQRData(last.body.text).text)[k]
                    = JSON_parse(last.body.text)[k]

====
